---- MODULE Spec2Model ----
(***************************************************************************)
(* Model of the dynamic memory manager (memmgr.c, kept in                  *)
(* src/unnamed/part_001): an implicit free list with boundary tags, three  *)
(* allocation policies, immediate coalescing, heap growth and shrink.      *)
(*                                                                         *)
(* Memory is a sparse map from word addresses (multiples of 8) to 64-bit   *)
(* words; a word that was never written reads as the provider's fresh      *)
(* content.  A boundary tag is the integer size|status, as PACK builds it. *)
(* Addresses and sizes are bytes, with the constants of the source.        *)
(***************************************************************************)
EXTENDS Integers, FiniteSets, Sequences, TLC

\* ------------------------------------------------------------------ bounds
MaxLive      == 3        \* live allocations the caller holds at once
CapChunks    == 34       \* provider capacity, in units of CHUNKSIZE
MaxLogLevel  == 1        \* log levels passed to mm_setloglevel: 0..MaxLogLevel
MaxCalls     == 5        \* calls of the public API in one run (Spec, SpecRefuse)
MaxCallsAF   == 9        \* calls in one run of SpecAF

\* --------------------------------------------------------- source constants
NULL      == 0
TYPE_SIZE == 8
ALLOC     == 1
FREE      == 0
CHUNKSIZE == 4096
BS        == 32
INITCHUNK == CHUNKSIZE * 16

\* inputs the caller draws from
Policies   == {"ap_FirstFit", "ap_NextFit", "ap_BestFit"}
BadPolicy  == "ap_Invalid"
Sizes      == {0, 40, 65440, 70000}
CallocArgs == {<<1, 8>>, <<3, 16>>}
DsStarts   == {4096, 4104}
PageSizes  == {0, 4096}
FreshWords == {0}

VARIABLES
  mm_initialized, mm_loglevel, get_free_block,
  ds_heap_start, ds_heap_brk, heap_start, heap_end, next_block, PAGESIZE,
  mem,
  seg_start, seg_brk, seg_pagesize, fresh,
  live, clash, pc, last, ncalls

vars == << mm_initialized, mm_loglevel, get_free_block,
           ds_heap_start, ds_heap_brk, heap_start, heap_end, next_block, PAGESIZE,
           mem, seg_start, seg_brk, seg_pagesize, fresh,
           live, clash, pc, last, ncalls >>

\* ------------------------------------------------------------ tag macros
PACK(size, status) == size + status
SIZE(v)            == v - (v % 8)
STATUS(v)          == v % 8
PREV_PTR(p)        == p - TYPE_SIZE
NEXT_PTR(p)        == p + TYPE_SIZE
MAX(a, b)          == IF a > b THEN a ELSE b

GET(m, p)        == IF p \in DOMAIN m THEN m[p] ELSE fresh
GET_SIZE(m, p)   == SIZE(GET(m, p))
GET_STATUS(m, p) == STATUS(GET(m, p))
PUT(m, p, v)     == [a \in (DOMAIN m) \cup {p} |-> IF a = p THEN v ELSE m[a]]
END(m, p)        == PREV_PTR(p + GET_SIZE(m, p))
START(m, p)      == NEXT_PTR(p - GET_SIZE(m, p))

\* heap_start taken BS bytes above the start without rounding down
AlignStart_no_round(x) == x + BS

\* (x - 1) / BS * BS and (x + BS) / BS * BS of mm_init, mm_malloc, mm_free
AlignEnd(x)   == ((x - 1) \div BS) * BS
AlignStart(x) == ((x + BS) \div BS) * BS
\* ceil((double)x / unit) * unit, for 0 < x
CeilTo(x, unit) == ((x + unit - 1) \div unit) * unit

\* --------------------------------------------------- data segment provider
seg_limit == seg_start + CapChunks * CHUNKSIZE

\* adjust_break(delta): the new break, or the break unchanged when refused
ds_sbrk_ok(brk, delta) == brk + delta >= seg_start /\ brk + delta <= seg_limit
ds_sbrk(brk, delta)    == IF ds_sbrk_ok(brk, delta) THEN brk + delta ELSE brk

\* ------------------------------------------------------------------------
\* The allocator's globals gathered in one record, so that mm_malloc and
\* mm_free can be composed (mm_calloc and mm_realloc call them).
Globals == [ mem |-> mem, heap_start |-> heap_start, heap_end |-> heap_end,
             next_block |-> next_block, get_free_block |-> get_free_block,
             ds_heap_brk |-> ds_heap_brk, seg_brk |-> seg_brk ]

\* --------------------------------------------------- free block locators
\* Each returns [p, next_block, out]: the block found (NULL if none), the
\* cursor afterwards, and out = "hang" when the loop never ends.
\* (Values computed once by the code are passed on as operator arguments.)
\* the size test of the locators with > for >=
Fits_strict(g, p, size) == GET_STATUS(g.mem, p) = FREE /\ GET_SIZE(g.mem, p) > size

Fits(g, p, size) == GET_STATUS(g.mem, p) = FREE /\ GET_SIZE(g.mem, p) >= size

Located(p, nb, out) == [p |-> p, next_block |-> nb, out |-> out]

\* the while loop of ff_get_free_block: [p, out] when it is left
RECURSIVE ff_loop(_, _, _)
ff_loop(g, size, p) ==
  IF ~(p < g.heap_end) THEN [p |-> p, out |-> "ok"]
  ELSE IF Fits(g, p, size) THEN [p |-> p, out |-> "ok"]
  ELSE IF GET_SIZE(g.mem, p) = 0 THEN [p |-> p, out |-> "hang"]
  ELSE ff_loop(g, size, p + GET_SIZE(g.mem, p))

\* lines 510-516, r the state in which the loop was left
ff_result(g, r) ==
  IF r.out = "hang" THEN Located(NULL, g.next_block, "hang")
  ELSE IF r.p >= g.heap_end \/ GET_STATUS(g.mem, r.p) = ALLOC
       THEN Located(NULL, g.next_block, "ok")
       ELSE Located(r.p, g.next_block, "ok")

\* the scan of line 500 begun at next_block instead of heap_start
ff_get_free_block_from_cursor(g, size) == ff_result(g, ff_loop(g, size, g.next_block))

ff_get_free_block(g, size) == ff_result(g, ff_loop(g, size, g.heap_start))

\* line 534 without the wrap to heap_start at a block of size 0
nf_advance_no_wrap(g, p) == p + GET_SIZE(g.mem, p)

\* line 534
nf_advance(g, p) ==
  IF GET_SIZE(g.mem, p) > 0 THEN p + GET_SIZE(g.mem, p) ELSE g.heap_start

\* the do-while of nf_get_free_block, its body having run at p; seen holds
\* the addresses the body has run at: reaching one of them again without
\* reaching next_block is a cycle that never meets the exit test
RECURSIVE nf_loop(_, _, _, _)
nf_next(g, size, q, seen) ==
  IF q = g.next_block THEN [p |-> q, out |-> "ok"]
  ELSE IF q \in seen THEN [p |-> q, out |-> "hang"]
  ELSE nf_loop(g, size, q, seen \cup {q})

nf_loop(g, size, p, seen) ==
  IF Fits(g, p, size) THEN [p |-> p, out |-> "ok"]
  ELSE nf_next(g, size, nf_advance(g, p), seen)

\* lines 536-541 returning p without next_block = p
nf_result_cursor_kept(g, size, r) ==
  IF r.out = "hang" THEN Located(NULL, g.next_block, "hang")
  ELSE IF r.p = g.next_block
          /\ (GET_STATUS(g.mem, r.p) = ALLOC \/ GET_SIZE(g.mem, r.p) < size)
       THEN Located(NULL, g.next_block, "ok")
       ELSE Located(r.p, g.next_block, "ok")

\* lines 536-541
nf_result(g, size, r) ==
  IF r.out = "hang" THEN Located(NULL, g.next_block, "hang")
  ELSE IF r.p = g.next_block
          /\ (GET_STATUS(g.mem, r.p) = ALLOC \/ GET_SIZE(g.mem, r.p) < size)
       THEN Located(NULL, g.next_block, "ok")
       ELSE Located(r.p, r.p, "ok")

nf_get_free_block(g, size) ==
  nf_result(g, size, nf_loop(g, size, g.next_block, {g.next_block}))

\* lines 559-563 without the size comparison: the first fit found is kept
bf_better_keeps_first(g, size, p, best) ==
  IF Fits(g, p, size) /\ best = NULL THEN p ELSE best

\* lines 559-563
bf_better(g, size, p, best) ==
  IF Fits(g, p, size) /\ (best = NULL \/ GET_SIZE(g.mem, best) > GET_SIZE(g.mem, p))
  THEN p ELSE best

RECURSIVE bf_loop(_, _, _, _)
bf_loop(g, size, p, best) ==
  IF ~(p < g.heap_end) THEN [p |-> best, out |-> "ok"]
  ELSE IF GET_SIZE(g.mem, p) = 0 THEN [p |-> best, out |-> "hang"]
  ELSE bf_loop(g, size, p + GET_SIZE(g.mem, p), bf_better(g, size, p, best))

bf_result(g, r) ==
  IF r.out = "hang" THEN Located(NULL, g.next_block, "hang")
  ELSE Located(r.p, g.next_block, "ok")

bf_get_free_block(g, size) == bf_result(g, bf_loop(g, size, g.heap_start, NULL))

\* the call through the function pointer get_free_block
call_get_free_block(g, size) ==
  CASE g.get_free_block = "ff" -> ff_get_free_block(g, size)
    [] g.get_free_block = "nf" -> nf_get_free_block(g, size)
    [] g.get_free_block = "bf" -> bf_get_free_block(g, size)

\* ------------------------------------------------------------- mm_malloc
\* required block size: ceil((double)(size + 2*TYPE_SIZE) / BS) * BS
req_size_of(size) == CeilTo(size + 2 * TYPE_SIZE, BS)

\* what mm_malloc, mm_calloc and mm_realloc hand back; out is "ok", "hang"
\* (the search never returns), "refused" (the provider refused the extension
\* and mm_malloc went on) or "ub"
Result(g, ret, out, grew, chunk) ==
  [g |-> g, ret |-> ret, out |-> out, grew |-> grew, chunk |-> chunk, copied |-> 0,
   dirty |-> FALSE]

\* lines 317 and 452: the size of the last block if its footer says FREE
trailing_free(g) ==
  IF GET_STATUS(g.mem, PREV_PTR(g.heap_end)) = FREE
  THEN GET_SIZE(g.mem, PREV_PTR(g.heap_end)) ELSE 0

\* lines 324-326
grow_chunk(req_size, size) == MAX(CeilTo(req_size - size + 1, CHUNKSIZE), INITCHUNK)

\* PUT(p, tag); PUT(END(p), tag): END reads the header just written
put_both(m, p, bdrtag) == PUT(PUT(m, p, bdrtag), END(PUT(m, p, bdrtag), p), bdrtag)

\* lines 331-349 and 469-482: heap_end follows the break, the last block of
\* the given size is tagged FREE, the end sentinel is rewritten and the
\* cursor is set to that block
put_trailing(g, brk, new_end, size) ==
  [g EXCEPT !.mem = PUT(PUT(PUT(g.mem, new_end - size, PACK(size, FREE)),
                            PREV_PTR(new_end), PACK(size, FREE)),
                        new_end, PACK(0, ALLOC)),
            !.heap_end = new_end, !.ds_heap_brk = brk, !.seg_brk = brk,
            !.next_block = new_end - size]

\* lines 330-349, size the trailing free size read at line 317.  The value
\* of ds_sbrk(chunk_size) is dropped by the code; only ds_sbrk(0) is read,
\* so a refused extension leaves the break and heap_end where they were.
expand_to(g, brk, size) ==
  put_trailing(g, brk, AlignEnd(brk), size + (AlignEnd(brk) - g.heap_end))

expand_heap(g, req_size, size) ==
  expand_to(g, ds_sbrk(g.seg_brk, grow_chunk(req_size, size)), size)

\* lines 358-366 without line 365: the remainder gets a header and no footer
split_block_no_footer(m, start_free, cur_size) ==
  IF cur_size # 0 THEN PUT(m, start_free, PACK(cur_size, FREE)) ELSE m

\* lines 358-366: cur_size is a size_t; when prev_size < req_size it wraps,
\* and the word is kept as the negative number it is congruent to mod 2^64
split_block(m, start_free, cur_size) ==
  IF cur_size # 0
  THEN PUT(PUT(m, start_free, PACK(cur_size, FREE)),
           PREV_PTR(start_free + cur_size), PACK(cur_size, FREE))
  ELSE m

\* lines 351-366: mark the leading req_size bytes ALLOC, split off the rest
place_block(g, start_alloc, req_size) ==
  [g EXCEPT !.mem =
     split_block(PUT(PUT(g.mem, start_alloc, PACK(req_size, ALLOC)),
                     PREV_PTR(start_alloc + req_size), PACK(req_size, ALLOC)),
                 start_alloc + req_size,
                 GET_SIZE(g.mem, start_alloc) - req_size)]

\* lines 351-368 after the heap was extended to gx; the block is next_block
malloc_grown(gx, req_size, out, chunk) ==
  Result(place_block(gx, gx.next_block, req_size), gx.next_block + TYPE_SIZE,
         out, TRUE, chunk)

\* lines 313-368, the search having failed.  out = "ub": req_size - size + 1
\* wraps around as a size_t and the double computed from it does not fit
\* a size_t.
malloc_expand(g, req_size, size) ==
  IF req_size - size + 1 <= 0 THEN Result(g, NULL, "ub", FALSE, 0)
  ELSE malloc_grown(expand_heap(g, req_size, size), req_size,
                    IF ds_sbrk_ok(g.seg_brk, grow_chunk(req_size, size))
                    THEN "ok" ELSE "refused",
                    grow_chunk(req_size, size))

\* lines 312-368, loc the result of get_free_block(req_size)
malloc_located(g, req_size, loc) ==
  IF loc.out = "hang" THEN Result(g, NULL, "hang", FALSE, 0)
  ELSE IF loc.p # NULL
  THEN Result(place_block([g EXCEPT !.next_block = loc.next_block], loc.p, req_size),
              loc.p + TYPE_SIZE, "ok", FALSE, 0)
  ELSE malloc_expand(g, req_size, trailing_free(g))

mm_malloc(g, size) ==
  malloc_located(g, req_size_of(size), call_get_free_block(g, req_size_of(size)))

\* --------------------------------------------------------------- mm_free
\* line 461 without the INITCHUNK that is to stay
shrink_chunk_no_floor(size) ==
  IF size > INITCHUNK THEN (size \div CHUNKSIZE) * CHUNKSIZE ELSE 0

\* line 461
shrink_chunk(size) ==
  IF size > INITCHUNK THEN ((size - INITCHUNK) \div CHUNKSIZE) * CHUNKSIZE ELSE 0

\* lines 466-482, the break having been lowered to brk
shrink_to(g, last_block, brk) ==
  put_trailing(g, brk, AlignEnd(brk), AlignEnd(brk) - last_block)

\* lines 459-483, last_block = START(PREV_PTR(heap_end))
shrink_by(g, last_block, chunk_size) ==
  IF chunk_size # 0
  THEN shrink_to(g, last_block, ds_sbrk(g.seg_brk, 0 - chunk_size))
  ELSE [g EXCEPT !.next_block = last_block]

\* lines 448-484: the merged block ends at the end sentinel
shrink_heap(g) ==
  shrink_by(g, START(g.mem, PREV_PTR(g.heap_end)), shrink_chunk(trailing_free(g)))

\* lines 428-435
merge_prev(g, prev_ptr, ptr) ==
  [g   |-> [g EXCEPT !.mem = put_both(g.mem, prev_ptr,
                                      PACK(GET_SIZE(g.mem, prev_ptr)
                                             + GET_SIZE(g.mem, ptr), FREE)),
                     !.next_block = prev_ptr],
   ptr |-> prev_ptr]

\* lines 426-436: merge with the preceding block when its footer says FREE
coalesce_prev(g, ptr) ==
  IF ptr # g.heap_start /\ GET_STATUS(g.mem, PREV_PTR(ptr)) = FREE
  THEN merge_prev(g, START(g.mem, PREV_PTR(ptr)), ptr)
  ELSE [g |-> g, ptr |-> ptr]

\* lines 448-484, after the merge with the succeeding block
after_merge_next(g, ptr) ==
  IF END(g.mem, ptr) = PREV_PTR(g.heap_end) THEN shrink_heap(g) ELSE g

\* lines 441-446
merge_next(g, ptr, next_ptr) ==
  after_merge_next(
    [g EXCEPT !.mem = put_both(g.mem, ptr,
                               PACK(GET_SIZE(g.mem, next_ptr) + GET_SIZE(g.mem, ptr), FREE)),
              !.next_block = next_ptr],
    ptr)

\* mm_free without lines 439-485: no merge with the succeeding block
coalesce_next_skipped(g, ptr) == g

\* lines 439-485: merge with the succeeding block when its header says FREE
coalesce_next(g, ptr) ==
  IF NEXT_PTR(END(g.mem, ptr)) # g.heap_end
     /\ GET_STATUS(g.mem, NEXT_PTR(END(g.mem, ptr))) = FREE
  THEN merge_next(g, ptr, NEXT_PTR(END(g.mem, ptr)))
  ELSE g

coalesce_next_of(c) == coalesce_next(c.g, c.ptr)

\* lines 421-423
mark_free(g, ptr) ==
  [g EXCEPT !.mem = put_both(g.mem, ptr, PACK(GET_SIZE(g.mem, ptr), FREE))]

\* mm_free(ptr) for ptr # NULL, after the assertion (lines 418-485)
free_block(g, payload) ==
  coalesce_next_of(coalesce_prev(mark_free(g, PREV_PTR(payload)), PREV_PTR(payload)))

\* mm_free with the NULL test dropped: NULL is treated as a block
mm_free_no_null_test(g, initialized, payload) ==
  IF initialized = 0 THEN [g |-> g, out |-> "abort"]
  ELSE [g |-> free_block(g, payload), out |-> "ok"]

\* mm_free with the assertion dropped (a build with NDEBUG)
mm_free_no_assert(g, initialized, payload) ==
  IF payload = NULL THEN [g |-> g, out |-> "ok"]
  ELSE [g |-> free_block(g, payload), out |-> "ok"]

\* returns [g, out]: out = "abort" when the assertion fails
mm_free(g, initialized, payload) ==
  IF payload = NULL THEN [g |-> g, out |-> "ok"]
  ELSE IF initialized = 0 THEN [g |-> g, out |-> "abort"]
  ELSE [g |-> free_block(g, payload), out |-> "ok"]

\* ------------------------------------------------------------- mm_calloc
\* memset(payload, 0, n) and memcpy(dst, src, n) on the word map; n is a
\* multiple of the word size for the inputs drawn here
Words(from, n) == { a \in from .. (from + n - 1) : a % TYPE_SIZE = from % TYPE_SIZE }

memset0(m, payload, n) ==
  [a \in (DOMAIN m) \cup Words(payload, n) |->
     IF a >= payload /\ a < payload + n THEN 0 ELSE m[a]]

\* memcpy on the word map: every destination word gets the old content of
\* its source word (a source word never written leaves the destination word
\* unwritten).  Where the two ranges overlap this is the result of memmove,
\* which is what the C library's memcpy computes on the lab's platform.
memcpy(m, dst, src, n) ==
  IF n <= 0 THEN m
  ELSE [a \in { b \in DOMAIN m : ~(b >= dst /\ b < dst + n) }
               \cup { b + (dst - src) : b \in { c \in DOMAIN m : c >= src /\ c < src + n } }
        |-> IF a >= dst /\ a < dst + n THEN m[a - (dst - src)] ELSE m[a]]

\* mm_calloc without the memset of line 382
calloc_fill_no_memset(r, n) == r

\* line 382; dirty records that the memset met a word that was not zero
calloc_fill(r, n) ==
  IF r.out \in {"hang", "ub"} \/ r.ret = NULL THEN r
  ELSE [r EXCEPT !.g.mem = memset0(r.g.mem, r.ret, n),
                 !.dirty = \E a \in Words(r.ret, n) : GET(r.g.mem, a) # 0]

mm_calloc(g, nmemb, size) == calloc_fill(mm_malloc(g, nmemb * size), nmemb * size)

\* ------------------------------------------------------------ mm_realloc
\* lines 402-409 without line 406: the forced next fit stays active
realloc_copied_no_restore(r, ptr, n, prev_get_free_block, prev_next_block) ==
  [r EXCEPT !.g.mem = IF r.ret # ptr THEN memcpy(r.g.mem, r.ret, ptr, n) ELSE r.g.mem,
            !.g.next_block = prev_next_block,
            !.copied = IF r.ret # ptr THEN n ELSE 0]

\* lines 402-409, r the result of the forced mm_malloc, n the length copied
realloc_copied(r, ptr, n, prev_get_free_block, prev_next_block) ==
  [r EXCEPT !.g.mem = IF r.ret # ptr THEN memcpy(r.g.mem, r.ret, ptr, n) ELSE r.g.mem,
            !.g.get_free_block = prev_get_free_block,
            !.g.next_block = prev_next_block,
            !.copied = IF r.ret # ptr THEN n ELSE 0]

realloc_done(r, ptr, prev_get_free_block, prev_next_block) ==
  IF r.out \in {"hang", "ub"} THEN r
  ELSE realloc_copied(r, ptr, GET_SIZE(r.g.mem, r.g.next_block) - 2 * TYPE_SIZE,
                      prev_get_free_block, prev_next_block)

\* lines 395-409, g1 the globals after mm_free(ptr)
realloc_freed(g1, ptr, size) ==
  realloc_done(mm_malloc([g1 EXCEPT !.get_free_block = "nf",
                                    !.next_block = PREV_PTR(ptr)], size),
               ptr, g1.get_free_block, g1.next_block)

\* lines 393-409, for ptr # NULL
mm_realloc(g, ptr, size) == realloc_freed(free_block(g, ptr), ptr, size)

\* ==================================================================== state
NoCall == [op |-> "none", ptr |-> NULL, size |-> 0, ret |-> NULL, out |-> "ok",
           grew |-> FALSE, chunk |-> 0, copied |-> 0, ap |-> "none",
           dirty |-> FALSE]

Call(op, ptr, size, ret, out, grew, chunk, copied) ==
  [op |-> op, ptr |-> ptr, size |-> size, ret |-> ret, out |-> out,
   grew |-> grew, chunk |-> chunk, copied |-> copied, ap |-> "none",
   dirty |-> FALSE]

\* a call of mm_init with the policy ap
InitCall(ap, out) ==
  [Call("init", NULL, 0, NULL, out, FALSE, 0, 0) EXCEPT !.ap = ap]

\* the call just made, for the properties that speak of one call
Logged(c) == last' = c /\ ncalls' = ncalls + 1

\* the state of the process once a call ended in the given way
PcAfter(out) ==
  CASE out = "ok"      -> "run"
    [] out = "hang"    -> "hang"      \* the call never returns
    [] out = "refused" -> "wild"      \* tags were written past the break
    [] out = "ub"      -> "ub"
    [] out = "abort"   -> "abort"     \* assert(mm_initialized) failed
    [] out = "panic"   -> "panic"     \* PANIC(): exit(EXIT_FAILURE)

Init ==
  /\ mm_initialized = 0
  /\ mm_loglevel = 0
  /\ get_free_block = "NULL"
  /\ ds_heap_start = NULL
  /\ ds_heap_brk = NULL
  /\ heap_start = NULL
  /\ heap_end = NULL
  /\ next_block = NULL
  /\ PAGESIZE = 0
  /\ mem = << >>
  /\ seg_start \in DsStarts \cup {NULL}
  /\ seg_brk \in {seg_start, seg_start + CHUNKSIZE}
  /\ seg_pagesize \in PageSizes
  /\ fresh \in FreshWords
  /\ live = << >>
  /\ clash = FALSE
  /\ pc = "run"
  /\ last = NoCall
  /\ ncalls = 0

SetGlobals(g) ==
  /\ mem' = g.mem
  /\ heap_start' = g.heap_start
  /\ heap_end' = g.heap_end
  /\ next_block' = g.next_block
  /\ get_free_block' = g.get_free_block
  /\ ds_heap_brk' = g.ds_heap_brk
  /\ seg_brk' = g.seg_brk

Provider == << seg_start, seg_pagesize, fresh >>

\* ------------------------------------------------------------------ mm_init
LocatorOf(ap) ==
  CASE ap = "ap_FirstFit" -> "ff"
    [] ap = "ap_NextFit"  -> "nf"
    [] ap = "ap_BestFit"  -> "bf"

\* lines 269-271 with the PAGESIZE test dropped
sanity_check_no_pagesize_test(start, brk, pagesize) ==
  start = NULL \/ start # brk

\* lines 269-271 with the "Heap not clean." test dropped
sanity_check_no_clean_test(start, brk, pagesize) ==
  start = NULL \/ pagesize = 0

\* lines 269-271: one of the three sanity checks ends in PANIC
sanity_check_fails(start, brk, pagesize) ==
  start = NULL \/ start # brk \/ pagesize = 0

mm_init(ap) ==
  /\ pc = "run"
  /\ UNCHANGED << Provider, mm_loglevel, live, clash >>
  /\ IF ap \notin Policies
     THEN /\ pc' = "panic"
          /\ Logged(InitCall(ap, "panic"))
          /\ UNCHANGED << mm_initialized, get_free_block, ds_heap_start, ds_heap_brk,
                          heap_start, heap_end, next_block, PAGESIZE, mem, seg_brk >>
     ELSE
       /\ get_free_block' = LocatorOf(ap)
       /\ ds_heap_start' = seg_start
       /\ PAGESIZE' = seg_pagesize
       /\ IF sanity_check_fails(seg_start, seg_brk, seg_pagesize)
          THEN /\ pc' = "panic"
               /\ ds_heap_brk' = seg_brk
               /\ Logged(InitCall(ap, "panic"))
               /\ UNCHANGED << mm_initialized, heap_start, heap_end, next_block, mem,
                               seg_brk >>
          ELSE LET brk    == ds_sbrk(seg_brk, INITCHUNK)
                   hs     == AlignStart(seg_start)
                   he     == AlignEnd(brk)
                   m1     == PUT(mem, PREV_PTR(hs), PACK(0, ALLOC))
                   m2     == PUT(m1, he, PACK(0, ALLOC))
                   bdrtag == PACK(he - hs, FREE)
                   m3     == PUT(m2, hs, bdrtag)
                   m4     == PUT(m3, PREV_PTR(he), bdrtag)
               IN  /\ seg_brk' = brk
                   /\ ds_heap_brk' = brk
                   /\ heap_start' = hs
                   /\ next_block' = hs
                   /\ heap_end' = he
                   /\ mem' = m4
                   /\ mm_initialized' = 1
                   /\ pc' = "run"
                   /\ Logged(InitCall(ap, "ok"))

\* ------------------------------------------------- calls of the public API
\* A call made before mm_init: assert(mm_initialized) ends the process
Aborted(op, ptr, size) ==
  /\ pc' = "abort"
  /\ Logged(Call(op, ptr, size, NULL, "abort", FALSE, 0, 0))
  /\ UNCHANGED << mm_initialized, mm_loglevel, get_free_block, ds_heap_start,
                  ds_heap_brk, heap_start, heap_end, next_block, PAGESIZE, mem,
                  seg_brk, Provider, live, clash >>

\* the caller's bookkeeping after an allocation returned ret for size bytes
Returned(op, ptr, size, r, held) ==
  /\ SetGlobals(r.g)
  /\ pc' = PcAfter(r.out)
  /\ Logged([Call(op, ptr, size, r.ret, r.out, r.grew, r.chunk, r.copied)
               EXCEPT !.dirty = r.dirty])
  /\ IF r.out \in {"hang", "ub"}
     THEN UNCHANGED << live, clash >>
     ELSE /\ live' = [q \in (DOMAIN held) \cup {r.ret} |->
                        IF q = r.ret THEN size ELSE held[q]]
          /\ clash' = (clash \/ r.ret \in DOMAIN held)
  /\ UNCHANGED << mm_initialized, mm_loglevel, ds_heap_start, PAGESIZE, Provider >>

Without(f, q) == [x \in (DOMAIN f) \ {q} |-> f[x]]

DoMalloc(size, r) ==
  /\ pc = "run"
  /\ IF mm_initialized = 0 THEN Aborted("malloc", NULL, size)
     ELSE /\ Cardinality(DOMAIN live) < MaxLive
          /\ Returned("malloc", NULL, size, r, live)

DoCalloc(nmemb, size, r) ==
  /\ pc = "run"
  /\ IF mm_initialized = 0 THEN Aborted("calloc", NULL, nmemb * size)
     ELSE /\ Cardinality(DOMAIN live) < MaxLive
          /\ Returned("calloc", NULL, nmemb * size, r, live)

DoRealloc(ptr, size, r) ==
  /\ pc = "run"
  /\ IF mm_initialized = 0 THEN Aborted("realloc", ptr, size)
     ELSE IF ptr = NULL
     THEN /\ Cardinality(DOMAIN live) < MaxLive
          /\ Returned("realloc", NULL, size, r, live)
     ELSE Returned("realloc", ptr, size, r, Without(live, ptr))

\* the provider has room for whatever the call asks of it
HasRoom(r) == mm_initialized = 1 => r.out # "refused"
NoRoom(r)  == mm_initialized = 1 /\ r.out = "refused"

MallocRoom(size, r) == HasRoom(r) /\ DoMalloc(size, r)
CallMalloc(size)    == MallocRoom(size, mm_malloc(Globals, size))

CallocRoom(nmemb, size, r) == HasRoom(r) /\ DoCalloc(nmemb, size, r)
CallCalloc(nmemb, size)    == CallocRoom(nmemb, size, mm_calloc(Globals, nmemb, size))

\* mm_realloc with the NULL test of line 392 dropped: mm_free(NULL) returns
\* at once and the forced next-fit search starts at PREV_PTR(NULL)
ReallocResult_no_null_test(ptr, size) ==
  realloc_freed(mm_free(Globals, 1, ptr).g, ptr, size)

\* line 392: mm_realloc(NULL, size) is mm_malloc(size)
ReallocResult(ptr, size) ==
  IF ptr = NULL THEN mm_malloc(Globals, size) ELSE mm_realloc(Globals, ptr, size)

ReallocRoom(ptr, size, r) == HasRoom(r) /\ DoRealloc(ptr, size, r)

\* lines 393-401 and 533: mm_free(ptr) has lowered the break to or below
\* ptr's old header, and the forced search reads that header from memory the
\* provider has taken back.  The read either yields the old word (the
\* outcome ReallocResult computes) or ends the process.
ReallocFault(ptr, size, g1) ==
  /\ PREV_PTR(ptr) >= g1.seg_brk
  /\ DoRealloc(ptr, size, Result(g1, NULL, "ub", FALSE, 0))

CallRealloc(ptr, size) ==
  \/ ReallocRoom(ptr, size, ReallocResult(ptr, size))
  \/ /\ mm_initialized = 1 /\ ptr # NULL
     /\ ReallocFault(ptr, size, free_block(Globals, ptr))

FreeDone(ptr, r) ==
  /\ pc = "run"
  /\ SetGlobals(r.g)
  /\ pc' = PcAfter(r.out)
  /\ Logged(Call("free", ptr, 0, NULL, r.out, FALSE, 0, 0))
  /\ live' = IF r.out = "ok" /\ ptr # NULL THEN Without(live, ptr) ELSE live
  /\ UNCHANGED << mm_initialized, mm_loglevel, ds_heap_start, PAGESIZE, Provider,
                  clash >>

CallFree(ptr) == FreeDone(ptr, mm_free(Globals, mm_initialized, ptr))

mm_setloglevel(level) ==
  /\ pc = "run"
  /\ mm_loglevel' = level
  /\ Logged(Call("setloglevel", NULL, level, NULL, "ok", FALSE, 0, 0))
  /\ UNCHANGED << mm_initialized, get_free_block, ds_heap_start, ds_heap_brk,
                  heap_start, heap_end, next_block, PAGESIZE, mem, seg_brk, Provider,
                  live, clash, pc >>

\* mm_check only prints; it asserts mm_initialized first
mm_check ==
  /\ pc = "run"
  /\ IF mm_initialized = 0 THEN Aborted("check", NULL, 0)
     ELSE /\ Logged(Call("check", NULL, 0, NULL, "ok", FALSE, 0, 0))
          /\ UNCHANGED << mm_initialized, mm_loglevel, get_free_block, ds_heap_start,
                          ds_heap_brk, heap_start, heap_end, next_block, PAGESIZE, mem,
                          seg_brk, Provider, live, clash, pc >>

\* the provider refuses the extension a call needs
MallocNoRoom(size, r)       == NoRoom(r) /\ DoMalloc(size, r)
CallocNoRoom(nmemb, size, r) == NoRoom(r) /\ DoCalloc(nmemb, size, r)
ReallocNoRoom(ptr, size, r) == NoRoom(r) /\ DoRealloc(ptr, size, r)

GrowthRefused ==
  \/ \E size \in Sizes : MallocNoRoom(size, mm_malloc(Globals, size))
  \/ \E a \in CallocArgs : CallocNoRoom(a[1], a[2], mm_calloc(Globals, a[1], a[2]))
  \/ \E ptr \in (DOMAIN live) \cup {NULL}, size \in Sizes :
       ReallocNoRoom(ptr, size, ReallocResult(ptr, size))

Calls(limit) == ncalls < limit

\* the pointers a caller can pass: one it holds, NULL, and, while nothing was
\* allocated because the heap is not initialized, an address of its own
StrayPtr   == 8 * TYPE_SIZE
CallerPtrs == (DOMAIN live) \cup {NULL}
                \cup (IF mm_initialized = 0 THEN {StrayPtr} ELSE {})

Next ==
  \/ Calls(MaxCalls) /\ \E ap \in Policies \cup {BadPolicy} : mm_init(ap)
  \/ Calls(MaxCalls) /\ \E size \in Sizes : CallMalloc(size)
  \/ Calls(MaxCalls) /\ \E a \in CallocArgs : CallCalloc(a[1], a[2])
  \/ Calls(MaxCalls) /\ \E ptr \in CallerPtrs, size \in Sizes :
                          CallRealloc(ptr, size)
  \/ Calls(MaxCalls) /\ \E ptr \in CallerPtrs : CallFree(ptr)
  \/ Calls(MaxCalls) /\ \E level \in 0 .. MaxLogLevel : mm_setloglevel(level)
  \/ Calls(MaxCalls) /\ mm_check

\* every public operation, the provider always has room
Spec == Init /\ [][Next]_vars

\* mm_init, mm_malloc and mm_free only, in longer sequences
NextAF ==
  \/ Calls(MaxCallsAF) /\ \E ap \in Policies : mm_init(ap)
  \/ Calls(MaxCallsAF) /\ \E size \in Sizes : CallMalloc(size)
  \/ Calls(MaxCallsAF) /\ \E ptr \in CallerPtrs : CallFree(ptr)

SpecAF == Init /\ [][NextAF]_vars

\* mm_init, mm_malloc, mm_free and mm_realloc with sizes that put a block
\* where the heap ends after a shrink
ShrinkSizes == {40, 69552, 70000}

NextRS ==
  \/ Calls(MaxCalls) /\ \E ap \in Policies : mm_init(ap)
  \/ Calls(MaxCalls) /\ \E size \in ShrinkSizes : CallMalloc(size)
  \/ Calls(MaxCalls) /\ \E ptr \in CallerPtrs : CallFree(ptr)
  \/ Calls(MaxCalls) /\ \E ptr \in CallerPtrs, size \in ShrinkSizes :
                          CallRealloc(ptr, size)

SpecRS == Init /\ [][NextRS]_vars

\* the provider's capacity is CapChunks chunks and it refuses beyond that
NextRefuse ==
  \/ Next
  \/ Calls(MaxCalls) /\ GrowthRefused

SpecRefuse == Init /\ [][NextRefuse]_vars

\* ================================================================ properties
\* a call on the initialized heap has returned to the caller
Returned0 == mm_initialized = 1 /\ pc \in {"run", "wild"}

\* the walk of mm_check: the headers met from heap_start while below heap_end,
\* and where the walk stops (-1: a block of size 0 stops it inside the heap)
RECURSIVE WalkFrom(_, _)
WalkFrom(p, acc) ==
  IF p >= heap_end THEN [hdrs |-> acc, stop |-> p]
  ELSE IF GET_SIZE(mem, p) <= 0 THEN [hdrs |-> acc \cup {p}, stop |-> 0 - 1]
  ELSE WalkFrom(p + GET_SIZE(mem, p), acc \cup {p})

Walk    == WalkFrom(heap_start, {})
Headers == Walk.hdrs
Footer(b) == b + GET_SIZE(mem, b) - TYPE_SIZE

Overlap(p, q) == p < q + live[q] /\ q < p + live[p]

\* C1: the payload ranges of the live allocations never overlap, and no
\* pointer is handed out while the caller still holds it.
C1_NoOverlap ==
  Returned0 => /\ ~clash
               /\ \A p \in DOMAIN live : \A q \in DOMAIN live : p # q => ~Overlap(p, q)

\* C2: after every public operation every block of the walk from heap_start
\* to heap_end has a footer tag equal to its header tag.
C2_TagSymmetry ==
  Returned0 => \A b \in Headers : GET(mem, Footer(b)) = GET(mem, b)

\* C3: between calls the blocks tile [heap_start, heap_end): the walk by
\* header sizes meets no block of size 0 and stops exactly at heap_end.
C3_Tiling ==
  Returned0 => /\ Walk.stop = heap_end
               /\ \A b \in Headers : GET_SIZE(mem, b) > 0

\* C4: right after a release returns and right after a call that grew the
\* heap, no two physically adjacent blocks are both FREE.
C4_Coalesced ==
  (Returned0 /\ (last.op = "free" \/ last.grew)) =>
    \A b \in Headers :
      LET nxt == b + GET_SIZE(mem, b)
      IN  ~(nxt \in Headers /\ GET_STATUS(mem, b) = FREE /\ GET_STATUS(mem, nxt) = FREE)

\* C5: every allocate call on the initialized heap, with a provider that has
\* room, returns, and returns a non-NULL pointer.
C5_AllocReturns ==
  (mm_initialized = 1 /\ last.op = "malloc") => (last.out = "ok" /\ last.ret # NULL)

\* C6: between calls the next-fit cursor is the header address of a block of
\* the tiling, below heap_end.
C6_CursorOnBlock ==
  Returned0 => (next_block \in Headers /\ next_block < heap_end)

\* C7: release(NULL) changes nothing: heap contents, heap bounds, the
\* provider's break, the active policy and the cursor are as before the call.
C7_FreeNullNoop ==
  [][ (last'.op = "free" /\ last'.ptr = NULL) =>
        UNCHANGED << mem, heap_start, heap_end, seg_brk, ds_heap_brk, ds_heap_start,
                     get_free_block, next_block, mm_initialized, mm_loglevel, PAGESIZE,
                     pc, live >> ]_vars

C7_Witness ==
  /\ last.op = "free" /\ last.ptr = NULL /\ last.out = "ok"
  /\ mm_initialized = 1 /\ DOMAIN live # {}

\* C8: a pointer returned by allocate is a multiple of 8, lies in
\* [heap_start, heap_end), and its block ends at or before heap_end.
C8_ReturnedInHeap ==
  (Returned0 /\ last.op = "malloc") =>
    /\ last.ret % TYPE_SIZE = 0
    /\ heap_start <= last.ret /\ last.ret < heap_end
    /\ PREV_PTR(last.ret) + GET_SIZE(mem, PREV_PTR(last.ret)) <= heap_end

\* C9: when the provider refuses the extension an allocate needs, the
\* process is terminated; no pointer is returned from the un-extended region.
C9_RefusalIsFatal ==
  last.out = "refused" => (pc = "panic" /\ last.ret = NULL)


\* everything the allocator and the provider hold
AllocatorState == << mm_initialized, mm_loglevel, get_free_block, ds_heap_start,
                     ds_heap_brk, heap_start, heap_end, next_block, PAGESIZE, mem,
                     seg_start, seg_brk, seg_pagesize >>
AllButLogLevel == << mm_initialized, get_free_block, ds_heap_start,
                     ds_heap_brk, heap_start, heap_end, next_block, PAGESIZE, mem,
                     seg_start, seg_brk, seg_pagesize >>

\* C10 as stated: before initialize, every call of another public operation
\* terminates the process and changes no allocator state.
C10_AnyCallBeforeInitFatal ==
  [][ (mm_initialized = 0 /\ last'.op # "init") =>
        (pc' = "abort" /\ UNCHANGED AllocatorState) ]_vars

\* C10 amended: before initialize, allocate, zero_allocate, reallocate,
\* release of a non-NULL pointer and dump_consistency_report terminate the
\* process and change no allocator state; set_log_verbosity sets the level
\* and returns, release(NULL) returns without any effect.
C10_GuardedCallsBeforeInitFatal ==
  [][ (mm_initialized = 0 /\ last'.op # "init") =>
        IF last'.op = "setloglevel"
        THEN pc' = "run" /\ mm_loglevel' = last'.size /\ UNCHANGED AllButLogLevel
        ELSE IF last'.op = "free" /\ last'.ptr = NULL
        THEN pc' = "run" /\ UNCHANGED AllocatorState
        ELSE pc' = "abort" /\ UNCHANGED AllocatorState ]_vars

C10_Witness ==
  /\ mm_initialized = 0 /\ pc = "abort"
  /\ last.op = "free" /\ last.ptr # NULL

\* C11: mm_init called while the provider reports start # break or a page
\* size of zero ends in PANIC, leaves mm_initialized as it was and requests
\* nothing from the provider (the break does not move).
C11_InitRejectsDirtyRegion ==
  [][ (last'.op = "init" /\ (seg_start # seg_brk \/ seg_pagesize = 0)) =>
        (pc' = "panic" /\ UNCHANGED << mm_initialized, seg_brk >>) ]_vars

C11_Witness ==
  /\ last.op = "init" /\ pc = "panic" /\ mm_initialized = 0
  /\ get_free_block # "NULL"
  /\ seg_start # NULL /\ seg_start = seg_brk /\ seg_pagesize = 0

\* C12: mm_initialized is never cleared, and mm_init called on the
\* initialized heap ends the process and leaves the heap, its bounds, the
\* cursor and the break as they were.
C12_InitializedOnce ==
  [][ /\ mm_initialized = 1 => mm_initialized' = 1
      /\ (mm_initialized = 1 /\ last'.op = "init") =>
            (pc' = "panic" /\ UNCHANGED << mem, heap_start, heap_end, next_block,
                                            seg_brk >>) ]_vars

C12_Witness ==
  /\ last.op = "init" /\ pc = "panic" /\ mm_initialized = 1
  /\ seg_brk > seg_start + INITCHUNK /\ DOMAIN live # {}

\* C13: when mm_init has succeeded, heap_start and heap_end are multiples of
\* BS with ds_heap_start < heap_start and heap_end < break, the words at
\* heap_start - 8 and at heap_end are (0, ALLOC), the heap is one FREE block
\* of size heap_end - heap_start with equal header and footer, and
\* next_block = heap_start.
C13_InitialHeap ==
  (last.op = "init" /\ last.out = "ok") =>
    /\ mm_initialized = 1
    /\ heap_start % BS = 0 /\ heap_end % BS = 0
    /\ ds_heap_start = seg_start /\ ds_heap_start < heap_start
    /\ heap_end < seg_brk /\ ds_heap_brk = seg_brk
    /\ PREV_PTR(heap_start) \in DOMAIN mem /\ heap_end \in DOMAIN mem
    /\ GET(mem, PREV_PTR(heap_start)) = PACK(0, ALLOC)
    /\ GET(mem, heap_end) = PACK(0, ALLOC)
    /\ Headers = {heap_start} /\ Walk.stop = heap_end
    /\ GET(mem, heap_start) = PACK(heap_end - heap_start, FREE)
    /\ GET(mem, PREV_PTR(heap_end)) = GET(mem, heap_start)
    /\ next_block = heap_start

C13_Witness ==
  /\ last.op = "init" /\ last.out = "ok" /\ mm_initialized = 1
  /\ seg_start % BS # 0 /\ get_free_block = "nf"

\* no block of the walk from heap_start is FREE and of at least size bytes
NoFreeFits(size) ==
  \A b \in Headers : ~(GET_STATUS(mem, b) = FREE /\ GET_SIZE(mem, b) >= size)

\* C14: an mm_malloc whose required block size exceeds every FREE block of
\* the heap returns after exactly one extension of the break, by
\* max(INITCHUNK, ceil((req_size - trailing free size + 1) / CHUNKSIZE) *
\* CHUNKSIZE) bytes, and its block is placed at the start of the trailing
\* free block, which reaches the new heap_end.
C14_OneGrowthSuffices ==
  [][ (mm_initialized = 1 /\ pc = "run" /\ last'.op = "malloc"
       /\ NoFreeFits(req_size_of(last'.size))) =>
        /\ last'.out = "ok" /\ last'.grew
        /\ last'.chunk = grow_chunk(req_size_of(last'.size), trailing_free(Globals))
        /\ seg_brk' = seg_brk + last'.chunk
        /\ heap_end' = heap_end + last'.chunk
        /\ last'.ret = NEXT_PTR(heap_end - trailing_free(Globals))
        /\ GET(mem', PREV_PTR(last'.ret)) = PACK(req_size_of(last'.size), ALLOC)
        /\ PREV_PTR(last'.ret) + req_size_of(last'.size) <= heap_end'
        /\ GET(mem', heap_end') = PACK(0, ALLOC) ]_vars

\* C15: after every operation on the initialized heap the word before
\* heap_start and the word at heap_end are (0, ALLOC), and heap_end is
\* strictly below the provider's break.
C15_Sentinels ==
  Returned0 =>
    /\ GET(mem, PREV_PTR(heap_start)) = PACK(0, ALLOC)
    /\ GET(mem, heap_end) = PACK(0, ALLOC)
    /\ heap_end < seg_brk

\* C16: after every mm_free of a block, a FREE block that ends at heap_end
\* is smaller than INITCHUNK + CHUNKSIZE (a larger one has been shrunk).
C16_ShrinkWheneverTrailing ==
  (Returned0 /\ last.op = "free" /\ last.ptr # NULL) =>
    \A b \in Headers :
      (GET_STATUS(mem, b) = FREE /\ b + GET_SIZE(mem, b) = heap_end)
        => GET_SIZE(mem, b) < INITCHUNK + CHUNKSIZE

\* g1 is reached from g by lowering the break: the bytes given back are a
\* positive multiple of CHUNKSIZE, the last block is FREE, of at least
\* INITCHUNK bytes, tagged at both ends with its size up to the new heap_end,
\* and the word at the new heap_end is (0, ALLOC)
ShrinkOK(g, g1) ==
  g1.seg_brk < g.seg_brk =>
    /\ (g.seg_brk - g1.seg_brk) % CHUNKSIZE = 0
    /\ g1.ds_heap_brk = g1.seg_brk /\ g1.heap_end = AlignEnd(g1.seg_brk)
    /\ GET(g1.mem, g1.heap_end) = PACK(0, ALLOC)
    /\ GET_STATUS(g1.mem, PREV_PTR(g1.heap_end)) = FREE
    /\ GET_SIZE(g1.mem, PREV_PTR(g1.heap_end)) >= INITCHUNK
    /\ GET(g1.mem, START(g1.mem, PREV_PTR(g1.heap_end))) = GET(g1.mem, PREV_PTR(g1.heap_end))
    /\ g1.heap_end - g1.heap_start >= INITCHUNK

\* C17: every shrink, in mm_free and in the mm_free that mm_realloc calls,
\* gives a positive multiple of CHUNKSIZE back to the provider, leaves a
\* trailing FREE block of at least INITCHUNK bytes whose header and footer
\* hold new heap_end - block start, and writes (0, ALLOC) at the new heap_end.
C17_ShrinkKeepsInitChunk ==
  [][ (mm_initialized = 1 /\ pc = "run" /\ last'.op \in {"free", "realloc"}
       /\ last'.ptr # NULL) =>
        /\ ShrinkOK(Globals, free_block(Globals, last'.ptr))
        /\ last'.op = "free" => /\ seg_brk' = free_block(Globals, last'.ptr).seg_brk
                                 /\ mem' = free_block(Globals, last'.ptr).mem ]_vars

\* a release has shrunk the heap that an allocation had grown
C17_Witness ==
  /\ last.op = "free" /\ last.ptr > seg_start + INITCHUNK /\ pc = "run"
  /\ seg_brk > seg_start + INITCHUNK /\ seg_brk < seg_limit
  /\ heap_end <= last.ptr
  /\ GET_STATUS(mem, PREV_PTR(heap_end)) = FREE

MIN(a, b) == IF a < b THEN a ELSE b

\* C18: when mm_realloc(ptr, size) with ptr # NULL returns another address,
\* the number of bytes copied is min(old payload size, size), the old
\* payload size being the old block's size less its two tags or the size
\* the block was requested with.
C18_CopyLength ==
  [][ (mm_initialized = 1 /\ pc = "run" /\ last'.op = "realloc" /\ last'.ptr # NULL
       /\ last'.out = "ok" /\ last'.ret # last'.ptr) =>
        \/ last'.copied = MIN(GET_SIZE(mem, PREV_PTR(last'.ptr)) - 2 * TYPE_SIZE, last'.size)
        \/ last'.copied = MIN(live[last'.ptr], last'.size) ]_vars

\* C19: mm_realloc(NULL, size) on the initialized heap returns what
\* mm_malloc(size) returns from the same state and leaves the heap, its
\* bounds, the break, the cursor and the policy as mm_malloc(size) leaves them.
C19_ReallocNullIsMalloc ==
  [][ (mm_initialized = 1 /\ pc = "run" /\ last'.op = "realloc" /\ last'.ptr = NULL) =>
        /\ last'.ret = mm_malloc(Globals, last'.size).ret
        /\ last'.out = mm_malloc(Globals, last'.size).out
        /\ last'.copied = 0
        /\ << mem', heap_start', heap_end', next_block', get_free_block',
               ds_heap_brk', seg_brk' >>
             = << mm_malloc(Globals, last'.size).g.mem,
                  mm_malloc(Globals, last'.size).g.heap_start,
                  mm_malloc(Globals, last'.size).g.heap_end,
                  mm_malloc(Globals, last'.size).g.next_block,
                  mm_malloc(Globals, last'.size).g.get_free_block,
                  mm_malloc(Globals, last'.size).g.ds_heap_brk,
                  mm_malloc(Globals, last'.size).g.seg_brk >> ]_vars

C19_Witness ==
  /\ last.op = "realloc" /\ last.ptr = NULL /\ last.out = "ok" /\ last.ret # NULL
  /\ get_free_block = "nf" /\ next_block = PREV_PTR(last.ret)
  /\ Cardinality(DOMAIN live) >= 2

\* C20: whenever a public operation returns on the initialized heap, the
\* locator in get_free_block is the one of the policy given to mm_init:
\* mm_init sets it, and no other call that returns leaves another one.
C20_PolicyFixed ==
  [][ (mm_initialized' = 1 /\ pc' = "run") =>
        IF last'.op = "init"
        THEN get_free_block' = LocatorOf(last'.ap)
        ELSE get_free_block' = get_free_block ]_vars

C20_Witness ==
  /\ last.op = "realloc" /\ last.ptr # NULL /\ last.out = "ok"
  /\ last.ret # last.ptr /\ pc = "run"
  /\ get_free_block = "bf"

\* the heap is well-formed: the walk from heap_start ends at heap_end over
\* blocks of positive size whose footer equals their header
WellFormed ==
  /\ mm_initialized = 1 /\ pc = "run"
  /\ Walk.stop = heap_end
  /\ \A b \in Headers : GET_SIZE(mem, b) > 0 /\ GET(mem, Footer(b)) = GET(mem, b)

\* the block sizes the locators are asked for
LocatorSizes == { req_size_of(size) : size \in Sizes } \cup { 3 * BS }

\* the FREE blocks of the heap of at least size bytes
FitSet(size) ==
  { b \in Headers : GET_STATUS(mem, b) = FREE /\ GET_SIZE(mem, b) >= size }

Lowest(S) == CHOOSE x \in S : \A y \in S : x <= y

\* r is what a locator returns that finds the lowest fitting block
IsLowestFit(r, size) ==
  /\ r.out = "ok"
  /\ r.p = IF FitSet(size) = {} THEN NULL ELSE Lowest(FitSet(size))
  /\ r.next_block = next_block

\* C21: on a well-formed heap ff_get_free_block(size) returns the FREE block
\* of lowest address whose size is >= size, NULL exactly when there is none,
\* and changes no state.
C21_FirstFitLowest ==
  WellFormed => \A size \in LocatorSizes :
                  IsLowestFit(ff_get_free_block(Globals, size), size)

C21_Witness ==
  /\ WellFormed /\ get_free_block = "ff"
  /\ \E size \in LocatorSizes :
       /\ Cardinality(FitSet(size)) >= 2
       /\ \E b \in Headers : b < Lowest(FitSet(size))
  /\ \E size \in LocatorSizes : FitSet(size) = {}

\* the fitting FREE blocks of minimal size
SmallestFits(size) ==
  { b \in FitSet(size) : \A c \in FitSet(size) : GET_SIZE(mem, b) <= GET_SIZE(mem, c) }

\* r is what a locator returns that finds the lowest of the smallest fits
IsBestFit(r, size) ==
  /\ r.out = "ok"
  /\ r.p = IF FitSet(size) = {} THEN NULL ELSE Lowest(SmallestFits(size))
  /\ r.next_block = next_block

\* C22: on a well-formed heap bf_get_free_block(size) returns a FREE block
\* of minimal size among those of at least size bytes, the one of lowest
\* address among several of that size, and NULL exactly when there is none.
C22_BestFitSmallest ==
  WellFormed => \A size \in LocatorSizes :
                  IsBestFit(bf_get_free_block(Globals, size), size)

C22_Witness ==
  /\ WellFormed /\ get_free_block = "bf"
  /\ \E size \in LocatorSizes :
       /\ FitSet(size) # {}
       /\ Lowest(SmallestFits(size)) # Lowest(FitSet(size))
  /\ \E size \in LocatorSizes : FitSet(size) = {}

\* the fitting FREE blocks at or above the cursor
FitsFromCursor(size) == { b \in FitSet(size) : b >= next_block }

\* r is what a locator returns that finds the first fit in address order
\* from the cursor, wrapping to heap_start, and moves the cursor to it
IsNextFit(r, size) ==
  /\ r.out = "ok"
  /\ r.p = IF FitSet(size) = {} THEN NULL
           ELSE IF FitsFromCursor(size) # {} THEN Lowest(FitsFromCursor(size))
           ELSE Lowest(FitSet(size))
  /\ r.next_block = IF FitSet(size) = {} THEN next_block ELSE r.p

\* C23: on a well-formed heap with next_block on a block header,
\* nf_get_free_block(size) returns the first FREE block of at least size
\* bytes in address order from the cursor, wrapping from heap_end to
\* heap_start, and sets next_block to it; it returns NULL and leaves
\* next_block exactly when no FREE block is that large.
C23_NextFitCircular ==
  (WellFormed /\ next_block \in Headers) =>
    \A size \in LocatorSizes : IsNextFit(nf_get_free_block(Globals, size), size)

C23_Witness ==
  /\ WellFormed /\ next_block \in Headers /\ get_free_block = "nf"
  /\ next_block # heap_start
  /\ \E size \in LocatorSizes : FitSet(size) # {} /\ FitsFromCursor(size) = {}
  /\ \E size \in LocatorSizes : FitSet(size) = {}

\* the address following the block that the last mm_malloc placed
AfterLast == PREV_PTR(last.ret) + req_size_of(last.size)

\* C24: under next fit, when an mm_malloc has been placed in a free block
\* that leaves room for the next request (the block that follows the placed
\* one is FREE and of at least the next required size), the mm_malloc that
\* follows immediately returns the payload of that remainder, whatever
\* other fitting free blocks the heap holds.
C24_NextFitContinues ==
  [][ (mm_initialized = 1 /\ pc = "run" /\ get_free_block = "nf"
       /\ last.op = "malloc" /\ last.out = "ok" /\ last'.op = "malloc"
       /\ Fits(Globals, AfterLast, req_size_of(last'.size))) =>
        (last'.out = "ok" /\ ~last'.grew /\ last'.ret = NEXT_PTR(AfterLast)) ]_vars

\* a request was placed although a FREE block of lower address fitted it
C24_Witness ==
  /\ WellFormed /\ get_free_block = "nf"
  /\ last.op = "malloc" /\ last.out = "ok" /\ ~last.grew
  /\ next_block = PREV_PTR(last.ret)
  /\ \E b \in Headers : /\ b < next_block
                         /\ GET_STATUS(mem, b) = FREE
                         /\ GET_SIZE(mem, b) >= req_size_of(last.size)
  /\ \E q \in DOMAIN live : PREV_PTR(q) + GET_SIZE(mem, PREV_PTR(q)) = next_block

\* the first three calls on the heap were mm_init, two allocations and
\* mm_free of the first of them, which is the block at heap_start
FirstReleased ==
  /\ ncalls = 4 /\ Cardinality(DOMAIN live) = 1
  /\ last.op = "free" /\ last.ptr = NEXT_PTR(heap_start)

\* C25: under first fit, after mm_free(p) an mm_malloc for which p's block
\* is the lowest fitting FREE block of the well-formed heap returns p; in
\* particular after p1 = mm_malloc(s1), p2 = mm_malloc(s2), mm_free(p1) on
\* the fresh heap, mm_malloc(s3) with required(s3) <= required(s1) returns p1.
C25_FirstFitReuses ==
  [][ (mm_initialized = 1 /\ pc = "run" /\ get_free_block = "ff"
       /\ last.op = "free" /\ last.ptr # NULL /\ last'.op = "malloc") =>
        /\ (WellFormed /\ FitSet(req_size_of(last'.size)) # {}
             /\ Lowest(FitSet(req_size_of(last'.size))) = PREV_PTR(last.ptr))
              => (last'.out = "ok" /\ ~last'.grew /\ last'.ret = last.ptr)
        /\ (FirstReleased
             /\ req_size_of(last'.size) <= GET_SIZE(mem, PREV_PTR(last.ptr)))
              => (last'.out = "ok" /\ last'.ret = last.ptr) ]_vars

\* the fourth allocation-affecting call has reused the block at heap_start,
\* released before it, and split it
C25_Witness ==
  /\ ncalls = 5 /\ get_free_block = "ff" /\ Cardinality(DOMAIN live) = 2
  /\ last.op = "malloc" /\ last.out = "ok" /\ last.ret = NEXT_PTR(heap_start)
  /\ GET_STATUS(mem, AfterLast) = FREE
  /\ seg_brk > seg_start + INITCHUNK

\* the heap of g is one FREE block from heap_start to heap_end
OneFreeBlock(g) ==
  /\ GET(g.mem, g.heap_start) = PACK(g.heap_end - g.heap_start, FREE)
  /\ GET(g.mem, PREV_PTR(g.heap_end)) = PACK(g.heap_end - g.heap_start, FREE)
  /\ g.heap_start < g.heap_end

\* mm_free of what mm_malloc returned
freed_again(r) == free_block(r.g, r.ret)

\* request sizes on the fresh heap: those of Sizes, one byte more than the
\* initial block holds, and one that uses up the heap after a growth
FreshSizes == Sizes \cup { 65441, 130992 }

\* C26: on the freshly initialized heap, under every policy and for every
\* size s, p = mm_malloc(s) followed by mm_free(p) leaves one FREE block
\* from heap_start to the current heap_end.
C26_AllocFreeRestores ==
  /\ (mm_initialized = 1 /\ pc = "run" /\ ncalls = 3
       /\ last.op = "free" /\ last.ptr # NULL)
        => (OneFreeBlock(Globals) /\ Headers = {heap_start} /\ Walk.stop = heap_end)
  /\ (last.op = "init" /\ last.out = "ok")
        => \A size \in FreshSizes :
             /\ mm_malloc(Globals, size).out = "ok"
             /\ OneFreeBlock(freed_again(mm_malloc(Globals, size)))

C26_Witness ==
  /\ mm_initialized = 1 /\ pc = "run" /\ ncalls = 3
  /\ last.op = "free" /\ last.ptr # NULL
  /\ seg_brk > seg_start + INITCHUNK /\ get_free_block = "bf"

\* C27: mm_calloc(nmemb, size) returns a payload whose first nmemb * size
\* bytes are zero, whatever the block held before, and the block is the one
\* mm_malloc(nmemb * size) obtains from the same state.
C27_CallocZeroed ==
  [][ (mm_initialized = 1 /\ pc = "run" /\ last'.op = "calloc"
       /\ last'.out = "ok" /\ last'.ret # NULL) =>
        /\ \A a \in Words(last'.ret, last'.size) : GET(mem', a) = 0
        /\ last'.ret = mm_malloc(Globals, last'.size).ret
        /\ heap_end' = mm_malloc(Globals, last'.size).g.heap_end
        /\ GET(mem', PREV_PTR(last'.ret))
             = GET(mm_malloc(Globals, last'.size).g.mem, PREV_PTR(last'.ret)) ]_vars

C27_Witness ==
  /\ last.op = "calloc" /\ last.out = "ok" /\ last.ret # NULL /\ last.dirty
  /\ GET_STATUS(mem, PREV_PTR(last.ret)) = ALLOC
  /\ \A a \in Words(last.ret, last.size) : GET(mem, a) = 0

\* C28: after every mm_free(p) with p not NULL has returned, next_block is
\* the header of the final block that contains the released bytes: the
\* freed block itself, the merged block, or the shrunk trailing block.
C28_CursorOnFinalBlock ==
  (mm_initialized = 1 /\ pc = "run" /\ last.op = "free" /\ last.ptr # NULL) =>
    /\ next_block \in Headers
    /\ GET_STATUS(mem, next_block) = FREE
    /\ next_block <= PREV_PTR(last.ptr)
    /\ PREV_PTR(last.ptr) < next_block + GET_SIZE(mem, next_block)

\* C29: under first fit or best fit, after mm_realloc(p, size) with p live
\* has returned q, the blocks still tile the heap with matching headers and
\* footers, and q's block is an ALLOCATED block of the tiling that overlaps
\* no other live allocation.
C29_ReallocKeepsHeap ==
  (mm_initialized = 1 /\ pc = "run" /\ get_free_block \in {"ff", "bf"}
   /\ last.op = "realloc" /\ last.ptr # NULL) =>
    /\ WellFormed
    /\ PREV_PTR(last.ret) \in Headers
    /\ GET_STATUS(mem, PREV_PTR(last.ret)) = ALLOC
    /\ last.ret \in DOMAIN live
    /\ \A q \in (DOMAIN live) \ {last.ret} : ~Overlap(last.ret, q)
    /\ ~clash

\* C30: every mm_realloc(p, size) with p live returns: the forced next-fit
\* search anchored at p's old header ends, also when the block before p's
\* block is FREE and no free block is large enough, and the heap then grows.
C30_ReallocTerminates ==
  (mm_initialized = 1 /\ last.op = "realloc" /\ last.ptr # NULL) => pc # "hang"

\* the word offsets of the first n bytes of a payload
Offsets(n) == { k \in 0 .. (n - 1) : k % TYPE_SIZE = 0 }

\* C31: when mm_realloc(p, size) with p live returns q, the first
\* min(old requested size, size) bytes at q are the bytes that were at p
\* before the call.
C31_ReallocKeepsContents ==
  [][ (mm_initialized = 1 /\ pc = "run" /\ last'.op = "realloc"
       /\ last'.ptr # NULL /\ last'.out = "ok") =>
        \A k \in Offsets(MIN(live[last'.ptr], last'.size)) :
           GET(mem', last'.ret + k) = GET(mem, last'.ptr + k) ]_vars

\* the block mm_malloc has just marked ALLOC, its required size, and the
\* words lines 351-366 write for a FREE block of S bytes at X
Placed(c)   == PREV_PTR(c.ret)
Required(c) == req_size_of(c.size)
PlaceWrites(X, R, S) ==
  {X, X + R - TYPE_SIZE} \cup (IF S > R THEN {X + R, X + S - TYPE_SIZE} ELSE {})

\* X + R .. X + S is one FREE block with header and footer, or is empty
RemainderOK(m, X, R, S) ==
  S > R => /\ GET(m, X + R) = PACK(S - R, FREE)
           /\ GET(m, X + S - TYPE_SIZE) = PACK(S - R, FREE)

\* the placement of lines 351-366 in the FREE block of S bytes at X, m the
\* words before it and m2 the words after it
PlacedIn(m, m2, X, R, S) ==
  /\ GET(m2, X) = PACK(R, ALLOC)
  /\ GET(m2, X + R - TYPE_SIZE) = PACK(R, ALLOC)
  /\ RemainderOK(m2, X, R, S)
  /\ \A a \in (DOMAIN m2) \ PlaceWrites(X, R, S) : GET(m2, a) = GET(m, a)

\* C32: when mm_malloc places a request of required size R in a FREE block
\* of size S at X, X becomes an ALLOC block of R bytes, the bytes from X + R
\* to X + S become one FREE block of S - R bytes when S > R, and the tags of
\* the other blocks, the sentinels, heap_start and, without growth, heap_end
\* stay as they were.
C32_PlacementFrame ==
  [][ (WellFormed /\ last'.op \in {"malloc", "calloc"} /\ last'.out = "ok"
       /\ last'.ret # NULL) =>
        /\ heap_start' = heap_start
        /\ GET(mem', PREV_PTR(heap_start)) = PACK(0, ALLOC)
        /\ GET(mem', heap_end') = PACK(0, ALLOC)
        /\ (~last'.grew /\ Placed(last') \in Headers
              /\ GET_STATUS(mem, Placed(last')) = FREE) =>
               /\ heap_end' = heap_end
               /\ PlacedIn(mem, IF last'.op = "calloc"
                                 THEN mm_malloc(Globals, last'.size).g.mem ELSE mem',
                            Placed(last'), Required(last'),
                            GET_SIZE(mem, Placed(last')))
        /\ last'.grew =>
               /\ GET(mem', Placed(last')) = PACK(Required(last'), ALLOC)
               /\ GET(mem', Placed(last') + Required(last') - TYPE_SIZE)
                    = PACK(Required(last'), ALLOC)
               /\ RemainderOK(mem', Placed(last'), Required(last'),
                              heap_end' - Placed(last'))
               /\ \A b \in Headers : b < Placed(last') =>
                    /\ GET(mem', b) = GET(mem, b)
                    /\ GET(mem', b + GET_SIZE(mem, b) - TYPE_SIZE) = GET(mem, b) ]_vars

C32_Witness ==
  /\ WellFormed /\ last.op = "malloc" /\ last.out = "ok" /\ ~last.grew
  /\ Cardinality(DOMAIN live) >= 2
  /\ Placed(last) > heap_start
  /\ GET_STATUS(mem, heap_start) = FREE
  /\ GET_STATUS(mem, AfterLast) = FREE /\ AfterLast < heap_end

\* the requested sizes the rounding is checked for
MaxSize == 200
SizeRange == (0 .. MaxSize) \cup Sizes

\* R is the least multiple of BS that holds size bytes and the two tags
RoundedUp(size, R) ==
  /\ R % BS = 0 /\ R >= BS
  /\ R >= size + 2 * TYPE_SIZE
  /\ R - BS < size + 2 * TYPE_SIZE

\* C33: for every requested size, 0 included, the block mm_malloc marks
\* ALLOC has size round_up(size + 16, 32), a multiple of 32 of at least 32
\* bytes that holds the payload between header and footer; every block of
\* the heap has a size that is a multiple of 32 and at least 32.
C33_BlockSizes ==
  /\ \A size \in SizeRange : RoundedUp(size, req_size_of(size))
  /\ (Returned0 /\ last.op \in {"malloc", "calloc", "realloc"} /\ last.out = "ok"
       /\ last.ret # NULL) =>
        /\ GET(mem, Placed(last)) = PACK(Required(last), ALLOC)
        /\ RoundedUp(last.size, GET_SIZE(mem, Placed(last)))
        /\ Placed(last) + GET_SIZE(mem, Placed(last)) - TYPE_SIZE >= last.ret + last.size
  /\ Returned0 => \A b \in Headers : GET_SIZE(mem, b) % BS = 0 /\ GET_SIZE(mem, b) >= BS

\* C34: mm_realloc(p, size) with p live and a required size no larger than
\* the size of p's block returns p itself.
C34_ReallocInPlace ==
  [][ (mm_initialized = 1 /\ pc = "run" /\ last'.op = "realloc"
       /\ last'.ptr # NULL
       /\ req_size_of(last'.size) <= GET_SIZE(mem, PREV_PTR(last'.ptr))) =>
        (last'.out = "ok" /\ last'.ret = last'.ptr) ]_vars

====
